---- MODULE Spec2Model ----
(***************************************************************************)
(* Model of the answer extractor of src/src/response_parser.py.            *)
(*                                                                         *)
(* A text is a sequence of one-character strings.  Every regular           *)
(* expression of the source is translated to the set of positions its      *)
(* components can reach from a start position (the positions an NFA for    *)
(* the expression is in), and re.search to the leftmost start position     *)
(* from which the expression matches.  extract_answer is run as a state    *)
(* machine: one action for the normalization pre-step, one per task        *)
(* family, one for the general fallback.                                   *)
(*                                                                         *)
(* Model of the experiment loop of src/src/data_collector.py               *)
(* (run_experiment) with the retrying API call of src/src/api_clients.py:  *)
(* one action per step of a run, the two result files kept from one run    *)
(* of the script to the next.                                              *)
(***************************************************************************)
EXTENDS Integers, Sequences, FiniteSets, TLC

VARIABLES
    raw_response,   \* the value the caller passes as response_text
    task_name,      \* the task id the caller passes
    response_text,  \* the local response_text after str(...).strip() (line 28)
    pc,             \* position in extract_answer
    ret,            \* what the call produced
    checkpoint,     \* the file checkpoint_results.csv: its rows, or NoFile
    final,          \* the file paths['processed_output']: its rows, or NoFile
    results,        \* the list results of run_experiment
    completed_jobs, \* the set completed_jobs of run_experiment
    cursor,         \* the job the nested loops of lines 93-111 are at
    lpc,            \* position in run_experiment
    attempts,       \* attempts made by the running api_call_with_retry
    api_error,      \* the call of line 148 raised: the except clause of line 159
    job_response,   \* the local raw_response of run_experiment
    calls,          \* per job, the calls of extract_answer made in this run
    ran,            \* the blocks of the try statement that have run
    runs            \* how many times the script has been started

parserVars == <<raw_response, task_name, response_text, pc, ret>>
loopVars == <<checkpoint, final, results, completed_jobs, cursor, lpc, attempts,
              api_error, job_response, calls, ran, runs>>
vars == <<parserVars, loopVars>>

----------------------------------------------------------------------------
(* Characters and the character classes of Python's re and str.            *)

LowerLetters == <<"a","b","c","d","e","f","g","h","i","j","k","l","m",
                  "n","o","p","q","r","s","t","u","v","w","x","y","z">>
UpperLetters == <<"A","B","C","D","E","F","G","H","I","J","K","L","M",
                  "N","O","P","Q","R","S","T","U","V","W","X","Y","Z">>

LowerSet == {LowerLetters[i] : i \in DOMAIN LowerLetters}
UpperSet == {UpperLetters[i] : i \in DOMAIN UpperLetters}
Alpha == LowerSet \cup UpperSet
Digits == {"0","1","2","3","4","5","6","7","8","9"}
\* \w
WordChars == Alpha \cup Digits \cup {"_"}
\* \s, and what str.strip() removes
Whitespace == {" ", "\n", "\t"}

LowerMap == [c \in UpperSet |->
               LowerLetters[CHOOSE i \in DOMAIN UpperLetters : UpperLetters[i] = c]]
UpperMap == [c \in LowerSet |->
               UpperLetters[CHOOSE i \in DOMAIN LowerLetters : LowerLetters[i] = c]]

\* str.lower() and str.upper() of one character
Lower(c) == IF c \in UpperSet THEN LowerMap[c] ELSE c
Upper(c) == IF c \in LowerSet THEN UpperMap[c] ELSE c

LowerStr(s) == [i \in DOMAIN s |-> Lower(s[i])]
UpperStr(s) == [i \in DOMAIN s |-> Upper(s[i])]

\* str.capitalize(): first character upper-cased, the rest lower-cased
Capitalize(s) == [i \in DOMAIN s |-> IF i = 1 THEN Upper(s[i]) ELSE Lower(s[i])]

Min(S) == CHOOSE x \in S : \A y \in S : x <= y
Max(S) == CHOOSE x \in S : \A y \in S : x >= y

----------------------------------------------------------------------------
(* String helpers.                                                         *)

\* the first position >= i whose character is not in S (Len(t)+1 if none)
RECURSIVE RunEnd(_, _, _)
RunEnd(t, i, S) ==
    IF i <= Len(t) /\ t[i] \in S THEN RunEnd(t, i + 1, S) ELSE i

\* the last position <= i whose character is not in S (0 if none)
RECURSIVE RunBegin(_, _, _)
RunBegin(t, i, S) ==
    IF i >= 1 /\ t[i] \in S THEN RunBegin(t, i - 1, S) ELSE i

\* str.strip(chars): the characters of S removed from both ends
StripChars(s, S) ==
    LET a == RunEnd(s, 1, S)
        b == RunBegin(s, Len(s), S)
    IN  IF a > b THEN << >> ELSE SubSeq(s, a, b)

\* str.strip()
Strip(s) == StripChars(s, Whitespace)

\* the literal w (given in lower case) at position i, under re.IGNORECASE
LitAt(t, i, w) ==
    /\ i >= 1
    /\ i + Len(w) - 1 <= Len(t)
    /\ \A k \in 1..Len(w) : Lower(t[i + k - 1]) = w[k]

\* \b between positions i-1 and i
WordBoundary(t, i) ==
    (i > 1 /\ i - 1 <= Len(t) /\ t[i - 1] \in WordChars)
        # (i >= 1 /\ i <= Len(t) /\ t[i] \in WordChars)

\* Positions reachable from the positions P by one component of a pattern.
\* X* for a character class X
StarS(t, P, S) == UNION {i..RunEnd(t, i, S) : i \in P}
\* X+ for a character class X
PlusS(t, P, S) == UNION {(i + 1)..RunEnd(t, i, S) : i \in P}
\* a literal
LitS(t, P, w) == {i + Len(w) : i \in {j \in P : LitAt(t, j, w)}}
\* (?:w1|w2|...)
AltS(t, P, ws) == UNION {LitS(t, P, w) : w \in ws}
\* w?
OptS(t, P, w) == P \cup LitS(t, P, w)

\* re.search: the leftmost start position from which the pattern matches,
\* as the position of its group 1 (0 when the pattern matches nowhere).
\* GroupAt[i] is the set of positions of group 1 over the matches that
\* start at i.
Search(GroupAt) ==
    LET hits == {i \in DOMAIN GroupAt : GroupAt[i] # {}}
    IN  IF hits = {} THEN 0 ELSE Min(GroupAt[Min(hits)])

----------------------------------------------------------------------------
(* The values a caller can pass as response_text, and Python's str().      *)
(* A value is a record: kind "none" is None; kind "str" is the text s;     *)
(* kind "float" is NaN when nan holds and n/10 otherwise; kind "int" is    *)
(* the integer n; kind "bool" is the boolean b.                            *)

NoneValue == [kind |-> "none", s |-> << >>, n |-> 0, nan |-> FALSE, b |-> FALSE]
StrValue(t) == [kind |-> "str", s |-> t, n |-> 0, nan |-> FALSE, b |-> FALSE]
NaNValue == [kind |-> "float", s |-> << >>, n |-> 0, nan |-> TRUE, b |-> FALSE]
FloatValue(tenths) ==
    [kind |-> "float", s |-> << >>, n |-> tenths, nan |-> FALSE, b |-> FALSE]
IntValue(k) == [kind |-> "int", s |-> << >>, n |-> k, nan |-> FALSE, b |-> FALSE]
BoolValue(x) == [kind |-> "bool", s |-> << >>, n |-> 0, nan |-> FALSE, b |-> x]

DigitChars == <<"0","1","2","3","4","5","6","7","8","9">>

\* str(k) of a natural number k
RECURSIVE DecStr(_)
DecStr(k) ==
    IF k < 10 THEN <<DigitChars[k + 1]>>
    ELSE DecStr(k \div 10) \o <<DigitChars[(k % 10) + 1]>>

\* str(v), line 28
Str(v) ==
    CASE v.kind = "str" -> v.s
      [] v.kind = "int" -> DecStr(v.n)
      [] v.kind = "bool" -> IF v.b THEN <<"T","r","u","e">>
                                    ELSE <<"F","a","l","s","e">>
      [] v.kind = "float" ->
            IF v.nan THEN <<"n","a","n">>
            ELSE DecStr(v.n \div 10) \o <<".">> \o DecStr(v.n % 10)
      [] v.kind = "none" -> <<"N","o","n","e">>

\* what a call produces: a returned string, or an exception that leaves it
Returned(s) == [kind |-> "str", s |-> s]
Raised(e) == [kind |-> "raise", s |-> e]
Pending == [kind |-> "pending", s |-> << >>]

\* lines 18-25: the inputs that return "" before any conversion
ShortCircuits(v) ==
    \/ v.kind = "none"
    \/ v.kind = "str" /\ v.s = << >>
    \/ v.kind = "float" /\ v.nan

----------------------------------------------------------------------------
(* Boolean family, lines 38-59.                                            *)

BoolCues1 ==
    {<<"a","n","s","w","e","r">>,
     <<"r","e","s","u","l","t">>,
     <<"f","i","n","a","l"," ","a","n","s","w","e","r">>,
     <<"f","i","n","a","l"," ","r","e","s","u","l","t">>,
     <<"c","o","n","c","l","u","s","i","o","n">>,
     <<"t","h","e","r","e","f","o","r","e">>}
BoolCues2 ==
    {<<"e","v","a","l","u","a","t","e","s"," ","t","o">>,
     <<"b","e","c","o","m","e","s">>,
     <<"e","q","u","a","l","s">>}
BoolCues3a ==
    {<<"s","o">>,
     <<"t","h","u","s">>,
     <<"h","e","n","c","e">>}
BoolCues3b ==
    {<<"t","h","e"," ","a","n","s","w","e","r"," ","i","s">>,
     <<"i","t"," ","i","s">>,
     <<"t","h","e"," ","r","e","s","u","l","t"," ","i","s">>}

TrueWord == <<"t","r","u","e">>
FalseWord == <<"f","a","l","s","e">>

\* \bTrue\b at position i (re.IGNORECASE)
TrueAt(t, i) ==
    WordBoundary(t, i) /\ LitAt(t, i, TrueWord) /\ WordBoundary(t, i + Len(TrueWord))
\* \bFalse\b at position i (re.IGNORECASE)
FalseAt(t, i) ==
    WordBoundary(t, i) /\ LitAt(t, i, FalseWord) /\ WordBoundary(t, i + Len(FalseWord))

\* [,\s]
CommaSpace == Whitespace \cup {","}

\* \*?\*?\s*\b(True|False)\b : the positions of the group
BoolTail(t, P) ==
    LET p1 == OptS(t, P, <<"*">>)
        p2 == OptS(t, p1, <<"*">>)
        p3 == StarS(t, p2, Whitespace)
    IN  {e \in p3 : TrueAt(t, e) \/ FalseAt(t, e)}

\* line 40
BoolPattern1(t, i) ==
    LET p0 == AltS(t, {i}, BoolCues1)
        p1 == StarS(t, p0, CommaSpace)
        p2 == p1 \cup LitS(t, p1, <<"i","s">>) \cup LitS(t, p1, <<":">>)
        p3 == StarS(t, p2, Whitespace)
    IN  BoolTail(t, p3)

\* line 41
BoolPattern2(t, i) ==
    LET p0 == AltS(t, {i}, BoolCues2)
        p1 == StarS(t, p0, CommaSpace)
    IN  BoolTail(t, p1)

\* line 42
BoolPattern3(t, i) ==
    LET p0 == AltS(t, {i}, BoolCues3a)
        p1 == PlusS(t, p0, CommaSpace)
        p2 == AltS(t, p1, BoolCues3b)
        p3 == StarS(t, p2, CommaSpace)
    IN  BoolTail(t, p3)

\* the list `patterns` of lines 39-43, by index
BoolPattern(k, t, i) ==
    CASE k = 1 -> BoolPattern1(t, i)
      [] k = 2 -> BoolPattern2(t, i)
      [] k = 3 -> BoolPattern3(t, i)

NumBoolPatterns == 3

\* re.search(patterns[k], response_text, re.IGNORECASE): position of group 1
BoolSearch(t, k) == Search([i \in 1..Len(t) |-> BoolPattern(k, t, i)])

\* match.group(1) of a boolean pattern whose group starts at g
BoolGroup(t, g) ==
    IF LitAt(t, g, TrueWord) THEN SubSeq(t, g, g + Len(TrueWord) - 1)
    ELSE SubSeq(t, g, g + Len(FalseWord) - 1)

\* the list tried from its last pattern to its first
LastBoolPattern(t) ==
    LET ks == {k \in 1..NumBoolPatterns : BoolSearch(t, k) # 0}
    IN  IF ks = {} THEN 0 ELSE Max(ks)

\* lines 44-47: the index of the first pattern of the list that matches
\* (0 when none does)
FirstBoolPattern(t) ==
    LET ks == {k \in 1..NumBoolPatterns : BoolSearch(t, k) # 0}
    IN  IF ks = {} THEN 0 ELSE Min(ks)

TailLen == 150

\* the scan of lines 50-51 run over the whole text
WholeText(t) == t

\* response_text[-150:], line 49
LastPart(t) == IF Len(t) <= TailLen THEN t ELSE SubSeq(t, Len(t) - TailLen + 1, Len(t))

\* lines 50-54: start (0-based) of the last match, -1 when there is none
LastTruePos(last_part) ==
    LET m == {i \in 1..Len(last_part) : TrueAt(last_part, i)}
    IN  IF m = {} THEN -1 ELSE Max(m) - 1
LastFalsePos(last_part) ==
    LET m == {i \in 1..Len(last_part) : FalseAt(last_part, i)}
    IN  IF m = {} THEN -1 ELSE Max(m) - 1

NoResult == [hit |-> FALSE, s |-> << >>]
Result(s) == [hit |-> TRUE, s |-> s]

\* lines 49-59
BooleanTailScan(t) ==
    LET last_part == LastPart(t)
        last_true_pos == LastTruePos(last_part)
        last_false_pos == LastFalsePos(last_part)
    IN  IF last_true_pos > last_false_pos THEN Result(<<"T","r","u","e">>)
        ELSE IF last_false_pos > last_true_pos THEN Result(<<"F","a","l","s","e">>)
        ELSE NoResult

\* lines 39-59: the value the boolean block returns, if it returns
BooleanRulesResult(t) ==
    LET k == FirstBoolPattern(t)
    IN  IF k # 0 THEN Result(Capitalize(BoolGroup(t, BoolSearch(t, k))))
        ELSE BooleanTailScan(t)

----------------------------------------------------------------------------
(* General fallback, lines 154-163.                                        *)

\* str.split(c)
RECURSIVE Split(_, _)
Split(s, c) ==
    LET idx == {i \in 1..Len(s) : s[i] = c}
    IN  IF idx = {} THEN <<s>>
        ELSE <<SubSeq(s, 1, Min(idx) - 1)>>
                 \o Split(SubSeq(s, Min(idx) + 1, Len(s)), c)

\* [f(x) for x in seq if x.strip()] with f = strip: the non-blank lines, stripped
RECURSIVE NonBlankStripped(_)
NonBlankStripped(ls) ==
    IF ls = << >> THEN << >>
    ELSE IF Strip(Head(ls)) = << >> THEN NonBlankStripped(Tail(ls))
    ELSE <<Strip(Head(ls))>> \o NonBlankStripped(Tail(ls))

AnswerLabel == <<"a","n","s","w","e","r",":">>

\* re.search(r'answer:\s*(.*)', ..., IGNORECASE | DOTALL): position of group 1
AnswerPattern(t, i) ==
    LET p0 == LitS(t, {i}, AnswerLabel)
    IN  {RunEnd(t, j, Whitespace) : j \in p0}
AnswerSearch(t) == Search([i \in 1..Len(t) |-> AnswerPattern(t, i)])

\* a handler that catches AttributeError alone
HandlerCatchesAttributeOnly(e) == e \in {"AttributeError"}

\* the exceptions the handler of line 160 catches
HandlerCatches(e) == e \in {"IndexError", "AttributeError"}

\* lines 154-163
GeneralFallback(t) ==
    LET g == AnswerSearch(t)
        answer_part == Strip(SubSeq(t, g, Len(t)))
        lines == NonBlankStripped(Split(answer_part, "\n"))
    IN  IF g = 0 THEN Returned(<< >>)
        ELSE IF lines = << >>
             THEN \* [...][0] raises IndexError
                  IF HandlerCatches("IndexError") THEN Returned(<< >>)
                  ELSE Raised("IndexError")
        ELSE Returned(StripChars(Strip(lines[1]), {","}))

----------------------------------------------------------------------------
(* Multiple-choice family, lines 64-84.                                    *)

ChoiceTasks ==
    {"date_understanding", "tracking_shuffled_objects_five_objects",
     "geometric_shapes"}

ChoiceCues1 ==
    {<<"a","n","s","w","e","r">>,
     <<"o","p","t","i","o","n">>,
     <<"c","o","r","r","e","c","t"," ","a","n","s","w","e","r">>,
     <<"c","o","r","r","e","c","t"," ","o","p","t","i","o","n">>,
     <<"c","o","n","c","l","u","s","i","o","n">>}
ChoiceCues2a ==
    {<<"s","o">>,
     <<"t","h","e","r","e","f","o","r","e">>,
     <<"t","h","u","s">>,
     <<"h","e","n","c","e">>}
ChoiceCues2b ==
    {<<"t","h","e"," ","a","n","s","w","e","r"," ","i","s">>,
     <<"i","t"," ","i","s">>}

ChoiceLetters == <<"A","B","C","D","E","F","G","H","I","J","K">>
ChoiceLetterSet == {ChoiceLetters[i] : i \in DOMAIN ChoiceLetters}

\* [A-K] under re.IGNORECASE at position i
LetterAt(t, i) == i >= 1 /\ i <= Len(t) /\ Upper(t[i]) \in ChoiceLetterSet

\* [:\s]
ColonSpace == Whitespace \cup {":"}

\* \(?([A-K])\)? : the positions of the group
ChoiceTail(t, P) == {e \in OptS(t, P, <<"(">>) : LetterAt(t, e)}

\* line 69
ChoicePattern1(t, i) ==
    LET p0 == AltS(t, {i}, ChoiceCues1)
        p1 == LitS(t, p0, <<" ","i","s">>)
        p2 == StarS(t, p1, ColonSpace)
    IN  ChoiceTail(t, p2)

\* line 70
ChoicePattern2(t, i) ==
    LET p0 == AltS(t, {i}, ChoiceCues2a)
        p1 == PlusS(t, p0, CommaSpace)
        p2 == AltS(t, p1, ChoiceCues2b)
        p3 == StarS(t, p2, CommaSpace)
    IN  ChoiceTail(t, p3)

\* line 71
ChoicePattern3(t, i) ==
    {e \in LitS(t, {i}, <<"(">>) : LetterAt(t, e) /\ LitAt(t, e + 1, <<")">>)}

\* line 72
ChoicePattern4(t, i) ==
    {e \in LitS(t, {i}, <<"*","*","(">>) :
        LetterAt(t, e) /\ LitAt(t, e + 1, <<")","*","*">>)}

\* line 73
ChoicePattern5(t, i) ==
    LET p0 == LitS(t, {i}, <<"f","i","n","a","l"," ","a","n","s","w","e","r">>)
        p1 == StarS(t, p0, ColonSpace)
        p2 == p1 \cup StarS(t, LitS(t, p1, <<"i","s">>), ColonSpace)
        p3 == OptS(t, p2, <<"$">>)
        p4 == OptS(t, p3, <<"\\">>)
        p5 == LitS(t, p4, <<"b","o","x","e","d">>)
        p6 == OptS(t, p5, <<"{">>)
    IN  ChoiceTail(t, p6)

\* ^ under re.MULTILINE
LineStart(t, i) == i = 1 \/ (i > 1 /\ i - 1 <= Len(t) /\ t[i - 1] = "\n")
\* $ under re.MULTILINE
LineEnd(t, i) == i = Len(t) + 1 \/ (i >= 1 /\ i <= Len(t) /\ t[i] = "\n")

\* \s*\*?\*?\s*
SpaceStars(t, P) ==
    LET p1 == StarS(t, P, Whitespace)
        p2 == OptS(t, p1, <<"*">>)
        p3 == OptS(t, p2, <<"*">>)
    IN  StarS(t, p3, Whitespace)

\* line 74
ChoicePattern6(t, i) ==
    IF ~LineStart(t, i) THEN {}
    ELSE {e \in ChoiceTail(t, SpaceStars(t, {i})) :
            \E z \in SpaceStars(t, OptS(t, {e + 1}, <<")">>)) : LineEnd(t, z)}

\* the list `patterns` of lines 68-75, by index
ChoicePattern(k, t, i) ==
    CASE k = 1 -> ChoicePattern1(t, i)
      [] k = 2 -> ChoicePattern2(t, i)
      [] k = 3 -> ChoicePattern3(t, i)
      [] k = 4 -> ChoicePattern4(t, i)
      [] k = 5 -> ChoicePattern5(t, i)
      [] k = 6 -> ChoicePattern6(t, i)

NumChoicePatterns == 6

\* re.search(patterns[k], response_text, re.MULTILINE | re.IGNORECASE)
ChoiceSearch(t, k) == Search([i \in 1..Len(t) |-> ChoicePattern(k, t, i)])

\* the pattern whose match comes first in the text, not first in the list
EarliestChoicePattern(t) ==
    LET ks == {k \in 1..NumChoicePatterns : ChoiceSearch(t, k) # 0}
    IN  IF ks = {} THEN 0
        ELSE CHOOSE k \in ks :
                \A j \in ks : <<ChoiceSearch(t, k), k>> = <<ChoiceSearch(t, j), j>>
                    \/ ChoiceSearch(t, k) < ChoiceSearch(t, j)
                    \/ (ChoiceSearch(t, k) = ChoiceSearch(t, j) /\ k < j)

\* lines 77-80: the index of the first pattern of the list that matches
FirstChoicePattern(t) ==
    IF ChoiceSearch(t, 1) # 0 THEN 1
    ELSE IF ChoiceSearch(t, 2) # 0 THEN 2
    ELSE IF ChoiceSearch(t, 3) # 0 THEN 3
    ELSE IF ChoiceSearch(t, 4) # 0 THEN 4
    ELSE IF ChoiceSearch(t, 5) # 0 THEN 5
    ELSE IF ChoiceSearch(t, 6) # 0 THEN 6
    ELSE 0

\* lines 82-84
BareLetter(t) ==
    LET cleaned == Strip(StripChars(t, {"*", "(", ")"}))
    IN  IF Len(cleaned) = 1 /\ UpperStr(cleaned)[1] \in ChoiceLetterSet
        THEN Result(UpperStr(cleaned))
        ELSE NoResult

\* lines 68-84: the value the multiple-choice block returns, if it returns
MultipleChoiceRulesResult(t) ==
    LET k == FirstChoicePattern(t)
    IN  IF k # 0 THEN Result(<<Upper(t[ChoiceSearch(t, k)])>>)
        ELSE BareLetter(t)

----------------------------------------------------------------------------
(* Word-sorting family, lines 92-149.                                      *)

\* ' '.join(ws)
RECURSIVE Join(_)
Join(ws) ==
    IF ws = << >> THEN << >>
    ELSE IF Len(ws) = 1 THEN ws[1]
    ELSE ws[1] \o <<" ">> \o Join(Tail(ws))

\* str.isalpha()
IsAlpha(s) == s # << >> /\ \A i \in DOMAIN s : s[i] \in Alpha

MinWords == 4

\* the numbered-list pattern with a group of letters only, ([a-zA-Z]{2,})
NumberedItemLetters(s) ==
    LET p1 == StarS(s, {1}, Whitespace)
        p2 == PlusS(s, p1, Digits)
        p3 == {i + 1 : i \in {j \in p2 : j <= Len(s) /\ s[j] \in {".", ")"}}}
        p4 == PlusS(s, p3, Whitespace)
        g  == {e \in p4 : e + 1 <= Len(s) /\ s[e] \in Alpha /\ s[e + 1] \in Alpha}
    IN  IF g = {} THEN << >>
        ELSE SubSeq(s, Min(g), RunEnd(s, Min(g) + 1, Alpha) - 1)

\* re.match(r'^\s*\d+[\.\)]\s+([a-zA-Z]\w+)', s): group 1, << >> when no match
NumberedItem(s) ==
    LET p1 == StarS(s, {1}, Whitespace)
        p2 == PlusS(s, p1, Digits)
        p3 == {i + 1 : i \in {j \in p2 : j <= Len(s) /\ s[j] \in {".", ")"}}}
        p4 == PlusS(s, p3, Whitespace)
        g  == {e \in p4 : e + 1 <= Len(s) /\ s[e] \in Alpha /\ s[e + 1] \in WordChars}
    IN  IF g = {} THEN << >>
        ELSE SubSeq(s, Min(g), RunEnd(s, Min(g) + 1, WordChars) - 1)

\* lines 96-100
RECURSIVE NumberedItems(_)
NumberedItems(lines) ==
    IF lines = << >> THEN << >>
    ELSE LET item == NumberedItem(Strip(Head(lines)))
         IN  (IF item = << >> THEN << >> ELSE <<item>>) \o NumberedItems(Tail(lines))

\* lines 106-111
RECURSIVE SingleWordLines(_)
SingleWordLines(lines) ==
    IF lines = << >> THEN << >>
    ELSE LET stripped == Strip(Head(lines))
         IN  (IF stripped # << >> /\ IsAlpha(stripped) /\ Len(stripped) > 1
              THEN <<stripped>> ELSE << >>) \o SingleWordLines(Tail(lines))

\* re.findall(r'\b[a-zA-Z]{2,}\b', line), scanning from position i
RECURSIVE FindWords(_, _)
FindWords(line, i) ==
    IF i > Len(line) THEN << >>
    ELSE LET j == RunEnd(line, i, Alpha)
         IN  IF WordBoundary(line, i) /\ j - i >= 2 /\ WordBoundary(line, j)
             THEN <<SubSeq(line, i, j - 1)>> \o FindWords(line, j)
             ELSE FindWords(line, i + 1)

stopwords ==
    {<<"t","h","e">>,
     <<"i","s">>,
     <<"a","r","e">>,
     <<"i","n">>,
     <<"o","r","d","e","r">>,
     <<"l","i","s","t">>,
     <<"s","o","r","t","e","d">>,
     <<"w","o","r","d","s">>,
     <<"h","e","r","e">>,
     <<"f","o","l","l","o","w","i","n","g">>,
     <<"f","i","n","a","l">>,
     <<"a","n","s","w","e","r">>,
     <<"a","l","p","h","a","b","e","t","i","c","a","l","l","y">>,
     <<"a","l","p","h","a","b","e","t","i","c","a","l">>,
     <<"t","h","e","s","e">>,
     <<"c","o","r","r","e","c","t">>,
     <<"n","o","w">>,
     <<"b","e","l","o","w">>}

\* [w for w in all_words if w.lower() not in stopwords], line 136
RECURSIVE FilterStopwords(_)
FilterStopwords(ws) ==
    IF ws = << >> THEN << >>
    ELSE (IF LowerStr(Head(ws)) \in stopwords THEN << >> ELSE <<Head(ws)>>)
             \o FilterStopwords(Tail(ws))

ProseWindow == 15
ProseMinLen == 20

\* lines[-15:], line 119
LastLines(lines) ==
    IF Len(lines) <= ProseWindow THEN lines
    ELSE SubSeq(lines, Len(lines) - ProseWindow + 1, Len(lines))

\* lines 120-140 for one line: the words it yields, << >> when it is skipped
ProseLine(line) ==
    IF Len(Strip(line)) < ProseMinLen THEN << >>
    ELSE LET all_words == FindWords(line, 1)
         IN  IF Len(all_words) < MinWords THEN << >>
             ELSE LET filtered_words == FilterStopwords(all_words)
                  IN  IF Len(filtered_words) >= MinWords THEN filtered_words
                      ELSE << >>

\* the loop over lines[-15:] from its first line to its last
RECURSIVE ProseScanFrom(_, _)
ProseScanFrom(window, k) ==
    IF k > Len(window) THEN << >>
    ELSE IF ProseLine(window[k]) # << >> THEN ProseLine(window[k])
    ELSE ProseScanFrom(window, k + 1)
ProseScanForward(window, k) == ProseScanFrom(window, 1)

\* lines 119-140: the loop over reversed(lines[-15:]), from line k downwards
RECURSIVE ProseScan(_, _)
ProseScan(window, k) ==
    IF k = 0 THEN << >>
    ELSE IF ProseLine(window[k]) # << >> THEN ProseLine(window[k])
    ELSE ProseScan(window, k - 1)

LabelCues ==
    {<<"a","n","s","w","e","r">>,
     <<"l","i","s","t">>,
     <<"r","e","s","u","l","t">>}

\* [\w\s,]
ListChars == WordChars \cup Whitespace \cup {","}

\* the start of group 1 of r'(?:answer|list|result):?\s*([\w\s,]+)' for the
\* match that starts at i, by the priority of the greedy quantifiers: the
\* colon taken before the colon left, the longest \s* before a shorter one
LabeledGroupFrom(t, p) ==
    {e \in p..RunEnd(t, p, Whitespace) : e <= Len(t) /\ t[e] \in ListChars}
LabeledPattern(t, i) ==
    LET p0 == AltS(t, {i}, LabelCues)
        withColon == UNION {LabeledGroupFrom(t, p) : p \in LitS(t, p0, <<":">>)}
        without == UNION {LabeledGroupFrom(t, p) : p \in p0}
    IN  IF withColon # {} THEN {Max(withColon)}
        ELSE IF without # {} THEN {Max(without)}
        ELSE {}
LabeledSearch(t) == Search([i \in 1..Len(t) |-> LabeledPattern(t, i)])

\* str.replace(',', ' ')
ReplaceCommas(s) == [i \in DOMAIN s |-> IF s[i] = "," THEN " " ELSE s[i]]

\* str.split(): the maximal runs of non-whitespace characters
RECURSIVE SplitWhitespace(_, _)
SplitWhitespace(s, i) ==
    IF i > Len(s) THEN << >>
    ELSE IF s[i] \in Whitespace THEN SplitWhitespace(s, i + 1)
    ELSE LET j == Min({k \in i..(Len(s) + 1) : k = Len(s) + 1 \/ s[k] \in Whitespace})
         IN  <<SubSeq(s, i, j - 1)>> \o SplitWhitespace(s, j)

\* line 147 without the test of the length
RECURSIVE AlphabeticWordsAnyLength(_)
AlphabeticWordsAnyLength(ws) ==
    IF ws = << >> THEN << >>
    ELSE (IF IsAlpha(Head(ws)) THEN <<Head(ws)>> ELSE << >>)
             \o AlphabeticWordsAnyLength(Tail(ws))

\* line 147
RECURSIVE AlphabeticWords(_)
AlphabeticWords(ws) ==
    IF ws = << >> THEN << >>
    ELSE (IF IsAlpha(Head(ws)) /\ Len(Head(ws)) > 1 THEN <<Head(ws)>> ELSE << >>)
             \o AlphabeticWords(Tail(ws))

\* lines 143-147: the alphabetic words after the label, << >> when no match
LabeledWords(t) ==
    LET g == LabeledSearch(t)
        extracted == StripChars(Strip(SubSeq(t, g, RunEnd(t, g, ListChars) - 1)), {","})
    IN  IF g = 0 THEN << >>
        ELSE AlphabeticWords(SplitWhitespace(ReplaceCommas(extracted), 1))

\* the word-sorting block with the labeled list tried before the prose list
WordSortingLabeledFirst(t) ==
    LET lines == Split(t, "\n")
        numbered_items == NumberedItems(lines)
        single_word_lines == SingleWordLines(lines)
        window == LastLines(lines)
        prose == ProseScan(window, Len(window))
        alphabetic_words == LabeledWords(t)
    IN  IF Len(numbered_items) >= MinWords THEN Result(Join(numbered_items))
        ELSE IF Len(single_word_lines) >= MinWords THEN Result(Join(single_word_lines))
        ELSE IF Len(alphabetic_words) >= MinWords THEN Result(Join(alphabetic_words))
        ELSE IF prose # << >> THEN Result(Join(prose))
        ELSE NoResult

\* lines 93-149: the value the word-sorting block returns, if it returns
WordSortingRulesResult(t) ==
    LET lines == Split(t, "\n")
        numbered_items == NumberedItems(lines)
        single_word_lines == SingleWordLines(lines)
        window == LastLines(lines)
        prose == ProseScan(window, Len(window))
        alphabetic_words == LabeledWords(t)
    IN  IF Len(numbered_items) >= MinWords THEN Result(Join(numbered_items))
        ELSE IF Len(single_word_lines) >= MinWords THEN Result(Join(single_word_lines))
        ELSE IF prose # << >> THEN Result(Join(prose))
        ELSE IF Len(alphabetic_words) >= MinWords THEN Result(Join(alphabetic_words))
        ELSE NoResult

----------------------------------------------------------------------------
(* extract_answer as a state machine.                                      *)

BooleanTask == "boolean_expressions"
WordSortingTask == "word_sorting"

\* the pre-step without the check of lines 30-31
NormalizeNoEmptyCheck ==
    /\ pc = "start"
    /\ IF ShortCircuits(raw_response)
       THEN /\ ret' = Returned(<< >>)
            /\ pc' = "done"
            /\ UNCHANGED response_text
       ELSE /\ response_text' = Strip(Str(raw_response))
            /\ ret' = ret
            /\ pc' = "family"
    /\ UNCHANGED <<raw_response, task_name>>
    /\ UNCHANGED loopVars

\* lines 17-31
Normalize ==
    /\ pc = "start"
    /\ IF ShortCircuits(raw_response)
       THEN /\ ret' = Returned(<< >>)
            /\ pc' = "done"
            /\ UNCHANGED response_text
       ELSE LET stripped == Strip(Str(raw_response))
            IN  /\ response_text' = stripped
                /\ IF stripped = << >>
                   THEN ret' = Returned(<< >>) /\ pc' = "done"
                   ELSE ret' = ret /\ pc' = "family"
    /\ UNCHANGED <<raw_response, task_name>>
    /\ UNCHANGED loopVars

\* a family block that leaves a text holding `answer:` to the general fallback
FamilyStepLabelFirst(r) ==
    /\ IF r.hit /\ AnswerSearch(response_text) = 0
       THEN ret' = Returned(r.s) /\ pc' = "done"
       ELSE ret' = ret /\ pc' = "fallback"
    /\ UNCHANGED <<raw_response, task_name, response_text>>
    /\ UNCHANGED loopVars

\* a family block: return its result, or fall out of the block to line 154
FamilyStep(r) ==
    /\ IF r.hit THEN ret' = Returned(r.s) /\ pc' = "done"
       ELSE ret' = ret /\ pc' = "fallback"
    /\ UNCHANGED <<raw_response, task_name, response_text>>
    /\ UNCHANGED loopVars

\* lines 38-59
BooleanRules ==
    /\ pc = "family"
    /\ task_name = BooleanTask
    /\ FamilyStep(BooleanRulesResult(response_text))

\* lines 64-84
MultipleChoiceRules ==
    /\ pc = "family"
    /\ task_name \in ChoiceTasks
    /\ FamilyStep(MultipleChoiceRulesResult(response_text))

\* lines 92-149
WordSortingRules ==
    /\ pc = "family"
    /\ task_name = WordSortingTask
    /\ FamilyStep(WordSortingRulesResult(response_text))

\* the boolean block entered by every task id that is not in another family
NoFamilyRulesAsBoolean ==
    /\ pc = "family"
    /\ task_name # BooleanTask
    /\ task_name \notin ChoiceTasks
    /\ task_name # WordSortingTask
    /\ FamilyStep(BooleanRulesResult(response_text))

\* lines 38, 64, 92: no condition holds for any other task id
NoFamilyRules ==
    /\ pc = "family"
    /\ task_name # BooleanTask
    /\ task_name \notin ChoiceTasks
    /\ task_name # WordSortingTask
    /\ FamilyStep(NoResult)

\* lines 154-163
Fallback ==
    /\ pc = "fallback"
    /\ ret' = GeneralFallback(response_text)
    /\ pc' = "done"
    /\ UNCHANGED <<raw_response, task_name, response_text>>
    /\ UNCHANGED loopVars

Done == pc = "done" /\ UNCHANGED vars

----------------------------------------------------------------------------
(* The experiment loop: run_experiment of src/src/data_collector.py and    *)
(* api_call_with_retry of src/src/api_clients.py.                           *)

\* extract_answer as a function of its arguments, lines 3-163 of
\* response_parser.py: the string it returns
extract_answer(v, task) ==
    IF ShortCircuits(v) THEN << >>
    ELSE LET s == Strip(Str(v))
             r == IF task = BooleanTask THEN BooleanRulesResult(s)
                  ELSE IF task \in ChoiceTasks THEN MultipleChoiceRulesResult(s)
                  ELSE IF task = WordSortingTask THEN WordSortingRulesResult(s)
                  ELSE NoResult
         IN  IF s = << >> THEN << >>
             ELSE IF r.hit THEN r.s
             ELSE GeneralFallback(s).s

\* the configuration: config['models'], the list of line 94, config['tasks'],
\* params['checkpoint_interval']
models_config == <<"llama-3">>
Techniques == <<"zero-shot", "few-shot", "cot">>
tasks == <<"boolean_expressions">>
CheckpointInterval == 2

\* how many times the script is started
MaxRuns == 2

\* stop_after_attempt(3)
MaxAttempts == 3

\* lines 103-106: the first params['examples_per_task'] examples of a task
\* after the seeded shuffle
test_examples == <<[input |-> "not ( False )", target |-> <<"T","r","u","e">>]>>
ExamplesPerTask == Len(test_examples)

\* line 73
total_jobs == Len(models_config) * Len(Techniques) * Len(tasks) * ExamplesPerTask

\* the k-th iteration of the nested loops of lines 93-111
JobAt(k) ==
    LET e == ((k - 1) % ExamplesPerTask) + 1
        t == (((k - 1) \div ExamplesPerTask) % Len(tasks)) + 1
        q == (((k - 1) \div (ExamplesPerTask * Len(tasks))) % Len(Techniques)) + 1
        m == ((k - 1) \div (ExamplesPerTask * Len(tasks) * Len(Techniques))) + 1
    IN  [model_key |-> models_config[m], technique |-> Techniques[q],
         task |-> tasks[t], input |-> test_examples[e].input,
         target |-> test_examples[e].target]

\* the tuple (model_key, technique, task, input) of lines 71, 114, 149
JobKey(r) == <<r.model_key, r.technique, r.task, r.input>>

\* the texts the model API answers with
Responses ==
    {<<"t","h","e"," ","a","n","s","w","e","r"," ","i","s"," ","T","r","u","e">>,
     <<"a","n","s","w","e","r",":"," ","n","o">>}

\* the row of a job with the flag computed from the raw response
ResultRowRawFlag(job, raw) ==
    [model_key |-> job.model_key, technique |-> job.technique, task |-> job.task,
     input |-> job.input, target |-> StrValue(job.target),
     prediction |-> StrValue(extract_answer(raw, job.task)),
     correct |-> (raw = StrValue(job.target)),
     raw_response |-> raw]

\* the row of a job with the prediction in lower case
ResultRowLowercase(job, raw) ==
    [model_key |-> job.model_key, technique |-> job.technique, task |-> job.task,
     input |-> job.input, target |-> StrValue(job.target),
     prediction |-> StrValue(LowerStr(extract_answer(raw, job.task))),
     correct |-> (extract_answer(raw, job.task) = job.target),
     raw_response |-> raw]

\* lines 164-175: the row of a job (model_name and input_tokens left out)
ResultRow(job, raw) ==
    [model_key |-> job.model_key, technique |-> job.technique, task |-> job.task,
     input |-> job.input, target |-> StrValue(job.target),
     prediction |-> StrValue(extract_answer(raw, job.task)),
     correct |-> (extract_answer(raw, job.task) = job.target),
     raw_response |-> raw]

\* a file that does not exist; a file that exists holds rows of cells
NoFile == [exists |-> FALSE, rows |-> << >>]

\* DataFrame.to_csv: a string is written as it is, a missing value as an
\* empty cell
to_csv(rows) ==
    LET cell(v) == IF v.kind = "str" THEN v.s ELSE << >>
    IN  [exists |-> TRUE,
         rows |-> [i \in DOMAIN rows |->
                     [rows[i] EXCEPT !.target = cell(@), !.prediction = cell(@),
                                     !.raw_response = cell(@)]]]

\* the cells pandas.read_csv reads as missing values
NaStrings ==
    {<< >>,
     <<"#","N","/","A">>,
     <<"#","N","/","A"," ","N","/","A">>,
     <<"#","N","A">>,
     <<"-","1",".","#","I","N","D">>,
     <<"-","1",".","#","Q","N","A","N">>,
     <<"-","N","a","N">>,
     <<"-","n","a","n">>,
     <<"1",".","#","I","N","D">>,
     <<"1",".","#","Q","N","A","N">>,
     <<"<","N","A",">">>,
     <<"N","/","A">>,
     <<"N","A">>,
     <<"N","U","L","L">>,
     <<"N","a","N">>,
     <<"N","o","n","e">>,
     <<"n","/","a">>,
     <<"n","a","n">>,
     <<"n","u","l","l">>}

\* pandas.read_csv(...).to_dict('records'): a cell of NaStrings is read as
\* NaN, any other cell keeps its text
read_csv(file) ==
    LET value(cell) == IF cell \in NaStrings THEN NaNValue ELSE StrValue(cell)
    IN  [i \in DOMAIN file.rows |->
            [file.rows[i] EXCEPT !.target = value(@), !.prediction = value(@),
                                 !.raw_response = value(@)]]

\* no loaded row counts
CompletedOfNone(rows) == {}

\* every loaded row counts, with a response or without
CompletedOfAnyRow(rows) == {JobKey(rows[i]) : i \in DOMAIN rows}

\* lines 69-71: the jobs of the rows with a response
CompletedOf(rows) ==
    {JobKey(rows[i]) : i \in {j \in DOMAIN rows :
        /\ ~(rows[j].raw_response.kind = "float" /\ rows[j].raw_response.nan)
        /\ rows[j].raw_response # StrValue(<< >>)}}

\* lines 39-90: load the rows of an earlier run, build completed_jobs,
\* return when no job remains
Load ==
    /\ lpc = "start"
    /\ LET loaded == IF checkpoint.exists THEN read_csv(checkpoint)
                     ELSE IF final.exists THEN read_csv(final)
                     ELSE << >>
           remaining == total_jobs - Cardinality(CompletedOf(loaded))
       IN  /\ results' = loaded
           /\ completed_jobs' = CompletedOf(loaded)
           /\ lpc' = IF remaining = 0 THEN "ended" ELSE "loop"
    /\ cursor' = 1
    /\ UNCHANGED <<checkpoint, final, attempts, api_error, job_response, calls, ran, runs>>
    /\ UNCHANGED parserVars

\* line 114: a completed job is passed over
SkipJob ==
    /\ lpc = "loop"
    /\ cursor <= total_jobs
    /\ JobKey(JobAt(cursor)) \in completed_jobs
    /\ cursor' = cursor + 1
    /\ UNCHANGED <<checkpoint, final, results, completed_jobs, lpc, attempts, api_error,
                   job_response, calls, ran, runs>>
    /\ UNCHANGED parserVars

\* lines 118-148: the prompt is built and api_call_with_retry is entered
StartCall ==
    /\ lpc = "loop"
    /\ cursor <= total_jobs
    /\ JobKey(JobAt(cursor)) \notin completed_jobs
    /\ lpc' = "call"
    /\ attempts' = 0
    /\ api_error' = FALSE
    /\ UNCHANGED <<checkpoint, final, results, completed_jobs, cursor,
                   job_response, calls, ran, runs>>
    /\ UNCHANGED parserVars

\* api_clients.py lines 47-64 and data_collector.py lines 148-150: an attempt
\* returns a text; the job is added to completed_jobs
AttemptReturns ==
    /\ lpc = "call"
    /\ attempts < MaxAttempts
    /\ \E r \in Responses : job_response' = StrValue(r)
    /\ attempts' = attempts + 1
    /\ api_error' = FALSE
    /\ completed_jobs' = completed_jobs \cup {JobKey(JobAt(cursor))}
    /\ lpc' = "record"
    /\ UNCHANGED <<checkpoint, final, results, cursor, calls, ran, runs>>
    /\ UNCHANGED parserVars

\* an attempt raises; after the last one the error leaves the loops
AttemptRaisesAborts ==
    /\ lpc = "call"
    /\ attempts < MaxAttempts
    /\ attempts' = attempts + 1
    /\ IF attempts + 1 = MaxAttempts
       THEN api_error' = TRUE /\ ran' = ran \cup {"Exception"} /\ lpc' = "finally"
       ELSE UNCHANGED <<api_error, ran, lpc>>
    /\ UNCHANGED <<checkpoint, final, results, completed_jobs, cursor, job_response,
                   calls, runs>>
    /\ UNCHANGED parserVars

\* an attempt raises and the error goes to the caller at once, with no retry
AttemptRaisesGivesUp ==
    /\ lpc = "call"
    /\ attempts < MaxAttempts
    /\ attempts' = attempts + 1
    /\ api_error' = TRUE /\ job_response' = StrValue(<< >>) /\ lpc' = "record"
    /\ UNCHANGED <<checkpoint, final, results, completed_jobs, cursor, calls,
                   ran, runs>>
    /\ UNCHANGED parserVars

\* api_clients.py lines 47-64 and data_collector.py lines 159-162: an attempt
\* raises; after the last one the error reaches the except clause of the loop
AttemptRaises ==
    /\ lpc = "call"
    /\ attempts < MaxAttempts
    /\ attempts' = attempts + 1
    /\ IF attempts + 1 = MaxAttempts
       THEN api_error' = TRUE /\ job_response' = StrValue(<< >>) /\ lpc' = "record"
       ELSE UNCHANGED <<api_error, job_response, lpc>>
    /\ UNCHANGED <<checkpoint, final, results, completed_jobs, cursor, calls,
                   ran, runs>>
    /\ UNCHANGED parserVars

\* lines 164-184: the row is built with two calls of extract_answer and
\* appended; every checkpoint_interval rows the checkpoint is written
Record ==
    /\ lpc = "record"
    /\ LET row == ResultRow(JobAt(cursor), job_response)
       IN  /\ results' = Append(results, row)
           /\ checkpoint' = IF Len(results') % CheckpointInterval = 0
                            THEN to_csv(results')
                            ELSE checkpoint
    /\ calls' = [calls EXCEPT ![cursor] = @ + 2]
    /\ cursor' = cursor + 1
    /\ lpc' = "loop"
    /\ UNCHANGED <<final, completed_jobs, attempts, api_error, job_response, ran, runs>>
    /\ UNCHANGED parserVars

\* lines 187-188: Ctrl-C anywhere in the try block
KeyboardInterrupt ==
    /\ lpc \in {"loop", "call", "record"}
    /\ ran' = ran \cup {"KeyboardInterrupt"}
    /\ lpc' = "finally"
    /\ UNCHANGED <<checkpoint, final, results, completed_jobs, cursor, attempts, api_error,
                   job_response, calls, runs>>
    /\ UNCHANGED parserVars

\* lines 189-192: an exception of a step outside the try of lines 147-162
UnexpectedError ==
    /\ lpc \in {"loop", "record"}
    /\ ran' = ran \cup {"Exception"}
    /\ lpc' = "finally"
    /\ UNCHANGED <<checkpoint, final, results, completed_jobs, cursor, attempts, api_error,
                   job_response, calls, runs>>
    /\ UNCHANGED parserVars

\* the raw_response of the first cot row is not a string: line 216 raises
SampleRaises(rows) ==
    LET cot == {i \in DOMAIN rows : rows[i].technique = "cot"}
    IN  cot # {} /\ rows[Min(cot)].raw_response.kind # "str"

\* lines 194-222: the loops are over; the success block saves the final
\* results and removes the checkpoint
Success ==
    /\ lpc = "loop"
    /\ cursor > total_jobs
    /\ final' = to_csv(results)
    /\ IF SampleRaises(results)
       THEN /\ checkpoint' = checkpoint
            /\ ran' = ran \cup {"else raised"}
       ELSE /\ checkpoint' = NoFile
            /\ ran' = ran \cup {"else"}
    /\ lpc' = "finally"
    /\ UNCHANGED <<results, completed_jobs, cursor, attempts, api_error, job_response,
                   calls, runs>>
    /\ UNCHANGED parserVars

\* line 226: locals() holds the names of the local variables, and `else` is
\* not one
ElseNotInLocals == TRUE

\* a finally block that only prints the shutdown line
FinallyOnlyShutsDown ==
    /\ lpc = "finally"
    /\ lpc' = "ended"
    /\ UNCHANGED <<checkpoint, final, results, completed_jobs, cursor, attempts,
                   api_error, job_response, calls, ran, runs>>
    /\ UNCHANGED parserVars

\* lines 224-236
Finally ==
    /\ lpc = "finally"
    /\ IF ElseNotInLocals
       THEN /\ checkpoint' = to_csv(results)
            /\ ran' = ran \cup {"saving progress"}
       ELSE UNCHANGED <<checkpoint, ran>>
    /\ lpc' = "ended"
    /\ UNCHANGED <<final, results, completed_jobs, cursor, attempts, api_error,
                   job_response, calls, runs>>
    /\ UNCHANGED parserVars

\* the locals of run_experiment when the script starts
FreshLocals ==
    /\ results = << >>
    /\ completed_jobs = {}
    /\ cursor = 1
    /\ attempts = 0
    /\ api_error = FALSE
    /\ job_response = StrValue(<< >>)
    /\ calls = [k \in 1..total_jobs |-> 0]
    /\ ran = {}

\* the script is started again: lines 239-240
Restart ==
    /\ lpc = "ended"
    /\ runs < MaxRuns
    /\ runs' = runs + 1
    /\ lpc' = "start"
    /\ results' = << >>
    /\ completed_jobs' = {}
    /\ cursor' = 1
    /\ attempts' = 0
    /\ api_error' = FALSE
    /\ job_response' = StrValue(<< >>)
    /\ calls' = [k \in 1..total_jobs |-> 0]
    /\ ran' = {}
    /\ UNCHANGED <<checkpoint, final>>
    /\ UNCHANGED parserVars

\* no run of the script
LoopIdle ==
    /\ checkpoint = NoFile
    /\ final = NoFile
    /\ FreshLocals
    /\ lpc = "idle"
    /\ runs = 0

\* the first start of the script, with neither file
InitLoop ==
    /\ checkpoint = NoFile
    /\ final = NoFile
    /\ FreshLocals
    /\ lpc = "start"
    /\ runs = 1
    /\ raw_response = NoneValue
    /\ task_name = ""
    /\ response_text = << >>
    /\ pc = "idle"
    /\ ret = Pending

NextLoop ==
    \/ Load
    \/ SkipJob
    \/ StartCall
    \/ AttemptReturns
    \/ AttemptRaises
    \/ Record
    \/ KeyboardInterrupt
    \/ UnexpectedError
    \/ Success
    \/ Finally
    \/ Restart

SpecLoop == InitLoop /\ [][NextLoop]_vars

\* files an earlier run, or the user, left on disk, as lines 164-180 and 231
\* write them: rows of jobs 1-3 with a text, with a failed call, with a text
\* that read_csv takes for a missing value
LoadedFiles ==
    LET T == <<"t","h","e"," ","a","n","s","w","e","r"," ","i","s"," ","T","r","u","e">>
        N == <<"a","n","s","w","e","r",":"," ","n","o">>
        E == << >>
        A == <<"N","/","A">>
        True == <<"T","r","u","e">>
        Row(k, raw, prediction) ==
            [model_key |-> JobAt(k).model_key, technique |-> JobAt(k).technique,
             task |-> JobAt(k).task, input |-> JobAt(k).input,
             target |-> JobAt(k).target, prediction |-> prediction,
             correct |-> (prediction = JobAt(k).target), raw_response |-> raw]
        File(rows) == [exists |-> TRUE, rows |-> rows]
    IN  {NoFile,
         File(<<Row(1, E, E)>>),
         File(<<Row(1, T, True), Row(2, N, <<"n","o">>)>>),
         File(<<Row(1, E, E), Row(2, T, True), Row(3, N, <<"n","o">>), Row(1, T, True)>>),
         File(<<Row(1, E, E), Row(2, T, True), Row(3, E, E)>>),
         File(<<Row(1, A, E), Row(2, T, True)>>)}

\* one start of the script with any of these files in either place
InitResume ==
    /\ checkpoint \in LoadedFiles
    /\ final \in LoadedFiles
    /\ FreshLocals
    /\ lpc = "start"
    /\ runs = MaxRuns
    /\ raw_response = NoneValue
    /\ task_name = ""
    /\ response_text = << >>
    /\ pc = "idle"
    /\ ret = Pending

NextResume ==
    \/ Load
    \/ SkipJob
    \/ StartCall
    \/ AttemptReturns
    \/ AttemptRaises
    \/ Record
    \/ KeyboardInterrupt
    \/ UnexpectedError
    \/ Success
    \/ Finally

SpecResume == InitResume /\ [][NextResume]_vars

----------------------------------------------------------------------------
(* The calls that are explored.  A text is the concatenation of at most a  *)
(* bounded number of pieces drawn from a family's set of pieces.           *)

MaxTokens == 3
MaxBoolTokens == 3
MaxChoiceTokens == 3
MaxLines == 4
MaxBareTokens == 3

RECURSIVE Flatten(_)
Flatten(ts) == IF ts = << >> THEN << >> ELSE Head(ts) \o Flatten(Tail(ts))

Texts(A, n) == {Flatten(ts) : ts \in UNION {[1..k -> A] : k \in 0..n}}

\* a run of dots five characters short of the window of line 49
Pad == [i \in 1..(TailLen - 5) |-> "."]

GeneralTokens ==
    {<<" ">>,
     <<"\n">>,
     <<"A","n","s","w","e","r",":">>,
     <<"T","r","u","e","\n">>,
     <<"(","A",")","\n">>,
     <<"y","e","s",",">>,
     <<",">>,
     <<"1","."," ","a","b","\n","2","."," ","c","d","\n","3","."," ","e","f","\n","4","."," ","g","h">>}

BoolTokens ==
    {<<"t","h","e"," ","a","n","s","w","e","r"," ","i","s">>,
     <<" ","T","r","u","e">>,
     <<" ","F","a","l","s","e">>,
     <<" ","s","o",","," ","i","t"," ","i","s">>,
     <<" ","*","*">>,
     <<"a","n","s","w","e","r",":"," ","n","o">>,
     <<"x">>,
     <<" ","i","t"," ","e","q","u","a","l","s"," ","F","a","l","s","e",".">>,
     Pad}

ChoiceTokens ==
    {<<"t","h","e"," ","a","n","s","w","e","r"," ","i","s"," ">>,
     <<"(","A",")">>,
     <<"(","b",")">>,
     <<"s","o",","," ","i","t"," ","i","s"," ">>,
     <<"C">>,
     <<"\n">>,
     <<" ">>,
     <<"f","i","n","a","l"," ","a","n","s","w","e","r",":"," ","$","\\","b","o","x","e","d","{">>,
     <<"*","*">>,
     <<"a","n","s","w","e","r",":"," ","z","e","b","r","a">>,
     <<"L">>}

WordLines ==
    {<<"1","."," ","a","p","p","l","e","\n">>,
     <<"2","."," ","b","o","b","1","\n">>,
     <<"3",")"," ","e","\n","4",")"," ","f","i","g","\n">>,
     <<"c","a","t","\n">>,
     <<"H","e","r","e"," ","a","r","e"," ","t","h","e"," ","w","o","r","d","s"," ","i","n"," ","o","r","d","e","r",":"," ","a","n","t"," ","b","e","e"," ","c","o","w"," ","d","o","g","\n">>,
     <<"l","i","s","t",":","a","b",",","c","d",",","e","f",",","g","h","\n">>,
     <<"a","n","s","w","e","r",":"," ","x","1","\n">>,
     <<"t","h","e"," ","e","n","d","\n">>}

\* a task id that belongs to no family, and the empty task id
OtherTasks == {"navigate", ""}
AllTasks == {BooleanTask, WordSortingTask} \cup ChoiceTasks \cup OtherTasks

\* the values that are not text
NonTextValues ==
    {NoneValue, NaNValue, FloatValue(15), FloatValue(0), IntValue(0), IntValue(12),
     BoolValue(TRUE), BoolValue(FALSE)}

InitCall(values, ids) ==
    /\ raw_response \in values
    /\ task_name \in ids
    /\ response_text = << >>
    /\ pc = "start"
    /\ ret = Pending
    /\ LoopIdle

\* every kind of value, every task id
Init ==
    InitCall(NonTextValues \cup {StrValue(t) : t \in Texts(GeneralTokens, MaxTokens)},
             AllTasks)

Next ==
    \/ Normalize
    \/ BooleanRules
    \/ MultipleChoiceRules
    \/ WordSortingRules
    \/ NoFamilyRules
    \/ Fallback

Spec == Init /\ [][Next]_vars

\* calls for the boolean task
InitBoolean ==
    InitCall({StrValue(t) : t \in Texts(BoolTokens, MaxBoolTokens)}, {BooleanTask})
NextBoolean == Normalize \/ BooleanRules \/ Fallback
SpecBoolean == InitBoolean /\ [][NextBoolean]_vars

\* calls for the multiple-choice tasks
InitChoice ==
    InitCall({StrValue(t) : t \in Texts(ChoiceTokens, MaxChoiceTokens)}, ChoiceTasks)
NextChoice == Normalize \/ MultipleChoiceRules \/ Fallback
SpecChoice == InitChoice /\ [][NextChoice]_vars

\* calls for a multiple-choice task with texts made of a letter, stars,
\* parentheses and spaces
SpecBare ==
    /\ InitCall({StrValue(t) : t \in Texts({<<"*">>, <<"*","*">>, <<"("," ">>, <<" ",")">>,
                                              <<" ">>, <<"C">>, <<"c">>, <<"L">>},
                                             MaxBareTokens)},
                {"date_understanding"})
    /\ [][NextChoice]_vars

\* calls for the word-sorting task
InitWords ==
    InitCall({StrValue(t) : t \in Texts(WordLines, MaxLines)}, {WordSortingTask})
NextWords == Normalize \/ WordSortingRules \/ Fallback
SpecWords == InitWords /\ [][NextWords]_vars

\* blank lines, two fewer than the window of line 119
LinePad == [i \in 1..(ProseWindow - 2) |-> "\n"]

ProseLines ==
    {<<"H","e","r","e"," ","a","r","e"," ","t","h","e"," ","w","o","r","d","s"," ","i","n"," ","o","r","d","e","r",":"," ","a","n","t"," ","b","e","e"," ","c","o","w"," ","d","o","g","\n">>,
     <<"e","m","u"," ","f","o","x"," ","g","n","u"," ","h","e","n"," ","i","b","i","s"," ","j","a","y","\n">>,
     <<"T","h","e"," ","w","o","r","d","s"," ","a","r","e"," ","i","n"," ","o","r","d","e","r",":"," ","c","a","t","\n">>,
     <<"a","n","t","1"," ","b","e","e","1"," ","c","o","w","1"," ","d","o","g","1"," ","e","m","u","1","\n">>,
     <<"a","b"," ","c","d"," ","e","f"," ","g","h","\n">>,
     <<"a"," ","b"," ","c"," ","d"," ","e"," ","k","i","w","i"," ","l","i","m","e"," ","p","l","u","m","\n">>,
     LinePad}

\* calls for the word-sorting task on prose
InitProse ==
    InitCall({StrValue(t) : t \in Texts(ProseLines, MaxLines)}, {WordSortingTask})
SpecProse == InitProse /\ [][NextWords]_vars

LabeledLines ==
    {<<"A","n","s","w","e","r",":"," ","a","b",","," ","c","d","\n">>,
     <<"e","f"," ","g","h","\n">>,
     <<"a"," ","x","1"," ","i","j","\n">>,
     <<"(","k","l",")"," ","m","n","\n">>,
     <<"l","i","s","t"," ","a","b"," ","c","d","\n">>,
     <<"R","E","S","U","L","T",":","(","n","o",")","\n">>}

\* calls for the word-sorting task on short lines with labels
InitLabeled ==
    InitCall({StrValue(t) : t \in Texts(LabeledLines, MaxLines)}, {WordSortingTask})
SpecLabeled == InitLabeled /\ [][NextWords]_vars

----------------------------------------------------------------------------
(* Properties of extract_answer.                                           *)

TrueStr == <<"T","r","u","e">>
FalseStr == <<"F","a","l","s","e">>

\* the inputs of the pre-step: None, NaN, and text that is empty once trimmed
EmptyInput(v) ==
    \/ v.kind = "none"
    \/ v.kind = "float" /\ v.nan
    \/ v.kind = "str" /\ \A i \in DOMAIN v.s : v.s[i] \in Whitespace

\* the text holds `answer:` in some mix of cases
ContainsAnswerLabel(t) ==
    \E i \in 1..Len(t) :
        i + 6 <= Len(t) /\ LowerStr(SubSeq(t, i, i + 6)) = <<"a","n","s","w","e","r",":">>

InNoFamily(task) ==
    task \notin {"boolean_expressions", "date_understanding",
                 "tracking_shuffled_objects_five_objects", "geometric_shapes",
                 "word_sorting"}

\* C1: for every response value and every task id, a call of extract_answer
\* never raises, and what it returns is a string, never None.
C1_ReturnsString ==
    /\ ret.kind # "raise"
    /\ pc = "done" <=> ret.kind = "str"

\* a call that found `answer:` with nothing but blanks after it has returned
C1_Witness ==
    /\ pc = "done"
    /\ AnswerSearch(response_text) # 0
    /\ Strip(SubSeq(response_text, AnswerSearch(response_text), Len(response_text))) = << >>
    /\ ret = Returned(<< >>)

\* C2: for every task id, None, NaN, the empty string and text that is empty
\* after trimming return "", and neither a family rule nor the fallback is
\* evaluated for them.
C2_EmptyShortCircuits ==
    EmptyInput(raw_response) =>
        /\ pc \in {"start", "done"}
        /\ pc = "done" => ret = Returned(<< >>)

\* a call with a non-empty text of whitespace alone has returned
C2_Witness ==
    /\ pc = "done"
    /\ raw_response.kind = "str"
    /\ raw_response.s # << >>
    /\ EmptyInput(raw_response)
    /\ ret = Returned(<< >>)

\* C4: for the boolean task the returned value is "True", "False" or "",
\* also when the general fallback is reached.
C4_BooleanRange ==
    (pc = "done" /\ task_name = "boolean_expressions") =>
        ret.kind = "str" /\ ret.s \in {TrueStr, FalseStr, << >>}

\* C5: for the multiple-choice tasks the returned value is one uppercase
\* letter in A..K or "", also when the general fallback is reached.
C5_ChoiceRange ==
    (pc = "done" /\ task_name \in {"date_understanding",
                                   "tracking_shuffled_objects_five_objects",
                                   "geometric_shapes"}) =>
        /\ ret.kind = "str"
        /\ \/ ret.s = << >>
           \/ Len(ret.s) = 1 /\ ret.s[1] \in {"A","B","C","D","E","F","G","H","I","J","K"}

\* the tokens occur in the text from position i on, in this order, without
\* overlapping
RECURSIVE OccurInOrder(_, _, _)
OccurInOrder(toks, t, i) ==
    \/ toks = << >>
    \/ \E j \in i..Len(t) :
          /\ j + Len(Head(toks)) - 1 <= Len(t)
          /\ SubSeq(t, j, j + Len(Head(toks)) - 1) = Head(toks)
          /\ OccurInOrder(Tail(toks), t, j + Len(Head(toks)))

\* C6: for the word-sorting task the returned value is "" or purely
\* alphabetic tokens of the response text, in the order of the text, joined by
\* single spaces.
C6_WordsRange ==
    (pc = "done" /\ task_name = "word_sorting") =>
        /\ ret.kind = "str"
        /\ \/ ret.s = << >>
           \/ LET toks == Split(ret.s, " ")
              IN  /\ \A k \in DOMAIN toks : IsAlpha(toks[k])
                  /\ OccurInOrder(toks, Str(raw_response), 1)

\* C7: for a task id in none of the three families the result is the result
\* of the general fallback, and it is "" for every text without an `answer:`
\* label, whatever else the text holds.
C7_UnknownTaskOnlyFallback ==
    (pc = "done" /\ InNoFamily(task_name) /\ ~EmptyInput(raw_response)) =>
        /\ ret = GeneralFallback(response_text)
        /\ ~ContainsAnswerLabel(response_text) => ret = Returned(<< >>)

\* a call for an unknown task id has returned "" for a text on which the
\* rules of all three families produce an answer
C7_Witness ==
    /\ pc = "done"
    /\ task_name = "navigate"
    /\ ~ContainsAnswerLabel(response_text)
    /\ BooleanRulesResult(response_text).hit
    /\ MultipleChoiceRulesResult(response_text).hit
    /\ WordSortingRulesResult(response_text).hit
    /\ ret = Returned(<< >>)

\* the word a cue-phrase pattern captured at position g, as the block
\* returns it
CueWord(t, g) == Capitalize(BoolGroup(t, g))

\* C8: for the boolean task the cue-phrase patterns are tried in the order
\* 1, 2, 3 and the first that matches anywhere in the text decides the
\* result, "True" or "False", whatever the tail scan would find.
C8_CueOrder ==
    (pc = "done" /\ task_name = "boolean_expressions") =>
        LET t == response_text
            g1 == BoolSearch(t, 1)
            g2 == BoolSearch(t, 2)
            g3 == BoolSearch(t, 3)
        IN  /\ g1 # 0 => ret = Returned(CueWord(t, g1))
            /\ (g1 = 0 /\ g2 # 0) => ret = Returned(CueWord(t, g2))
            /\ (g1 = 0 /\ g2 = 0 /\ g3 # 0) => ret = Returned(CueWord(t, g3))
            /\ (g1 # 0 \/ g2 # 0 \/ g3 # 0) => ret.s \in {TrueStr, FalseStr}

\* patterns 1 and 2 both match, with different words, the tail scan would
\* return the other word, and the word of pattern 1 is returned
C8_Witness ==
    /\ pc = "done"
    /\ task_name = "boolean_expressions"
    /\ BoolSearch(response_text, 1) # 0
    /\ BoolSearch(response_text, 2) # 0
    /\ CueWord(response_text, BoolSearch(response_text, 1)) = TrueStr
    /\ CueWord(response_text, BoolSearch(response_text, 2)) = FalseStr
    /\ BooleanTailScan(response_text) = Result(FalseStr)
    /\ ret = Returned(TrueStr)

\* the last 150 characters of t
Last150(t) == [i \in 1..(IF Len(t) < 150 THEN Len(t) ELSE 150) |->
                 t[Len(t) - (IF Len(t) < 150 THEN Len(t) ELSE 150) + i]]
\* where the standalone word w (lower case) starts in s
Standalone(s, w) ==
    {i \in 1..Len(s) :
        /\ i + Len(w) - 1 <= Len(s)
        /\ Lower(s[i]) = w[1]
        /\ LowerStr(SubSeq(s, i, i + Len(w) - 1)) = w
        /\ (i = 1 \/ s[i - 1] \notin WordChars)
        /\ (i + Len(w) > Len(s) \/ s[i + Len(w)] \notin WordChars)}

\* C9: for the boolean task, when no cue phrase matches, the last 150
\* characters alone decide: of the standalone words found there the one whose
\* last occurrence starts later is returned, and when there is none the result
\* is the general fallback's.
C9_TailScan ==
    (pc = "done" /\ task_name = "boolean_expressions" /\ response_text # << >>
        /\ \A k \in 1..3 : BoolSearch(response_text, k) = 0) =>
        LET tail == Last150(response_text)
            T == Standalone(tail, <<"t","r","u","e">>)
            F == Standalone(tail, <<"f","a","l","s","e">>)
        IN  /\ (T # {} /\ F # {}) =>
                  ret = Returned(IF Max(T) > Max(F) THEN TrueStr ELSE FalseStr)
            /\ (T # {} /\ F = {}) => ret = Returned(TrueStr)
            /\ (T = {} /\ F # {}) => ret = Returned(FalseStr)
            /\ (T = {} /\ F = {}) => ret = GeneralFallback(response_text)

\* no cue phrase matches, the text is longer than 150 characters, a
\* standalone False stands before the last 150 characters and True alone in
\* them, and True is returned
C9_Witness ==
    /\ pc = "done"
    /\ task_name = "boolean_expressions"
    /\ \A k \in 1..3 : BoolSearch(response_text, k) = 0
    /\ Len(response_text) > 150
    /\ \E i \in Standalone(response_text, <<"f","a","l","s","e">>) :
            i + 4 <= Len(response_text) - 150
    /\ Standalone(Last150(response_text), <<"f","a","l","s","e">>) = {}
    /\ Standalone(Last150(response_text), <<"t","r","u","e">>) # {}
    /\ ret = Returned(TrueStr)

\* the letter a multiple-choice pattern captured, as the block returns it
ChoiceLetter(t, k) == <<Upper(t[ChoiceSearch(t, k)])>>

\* the patterns from the k-th on leave the result to the first that matches
RECURSIVE DecidedFrom(_)
DecidedFrom(k) ==
    IF k > NumChoicePatterns THEN TRUE
    ELSE \A at \in {ChoiceSearch(response_text, k)} :
            IF at # 0 THEN ret = Returned(<<Upper(response_text[at])>>)
            ELSE DecidedFrom(k + 1)

\* C10: for the multiple-choice tasks the six patterns are tried in list
\* order over the whole text and the first that matches decides the result,
\* its letter uppercased, wherever in the text the matches are.
C10_PatternOrder ==
    (pc = "done" /\ task_name \in {"date_understanding",
                                   "tracking_shuffled_objects_five_objects",
                                   "geometric_shapes"}) =>
        DecidedFrom(1)

\* a bare parenthesized letter stands before a cue phrase with another
\* letter, and the letter of the cue phrase is returned
C10_Witness ==
    /\ pc = "done"
    /\ task_name = "date_understanding"
    /\ ChoiceSearch(response_text, 1) # 0
    /\ ChoiceSearch(response_text, 3) # 0
    /\ ChoiceSearch(response_text, 3) < ChoiceSearch(response_text, 1)
    /\ ChoiceLetter(response_text, 3) = <<"A">>
    /\ ret = Returned(<<"B">>)

\* the words each word-sorting stage collects from the text: 1 numbered list,
\* 2 one word per line, 3 embedded prose list, 4 labeled list
StageWords(t) ==
    LET lines == Split(t, "\n")
        window == LastLines(lines)
    IN  <<NumberedItems(lines), SingleWordLines(lines),
          ProseScan(window, Len(window)), LabeledWords(t)>>

\* the stages of sw that collected at least 4 words
Yielding(sw) == {k \in 1..4 : Len(sw[k]) >= 4}

\* C11: for task word_sorting the stages numbered list, one word per line,
\* embedded prose list, labeled list are tried in that order; the first one
\* that yields at least 4 words decides the result, a stage with fewer
\* contributes nothing, and when all four fail the general fallback decides.
C11_StageOrder ==
    (pc = "done" /\ task_name = "word_sorting" /\ response_text # << >>) =>
        LET sw == StageWords(response_text)
            y == Yielding(sw)
        IN  IF y # {} THEN ret = Returned(Join(sw[Min(y)]))
            ELSE ret = GeneralFallback(response_text)

\* a finished call in which the numbered-list stage collected between 1 and 3
\* words, the prose stage and the labeled stage both yield 4 words, not the
\* same ones, and the prose stage decided
C11_Witness ==
    /\ pc = "done"
    /\ task_name = "word_sorting"
    /\ response_text # << >>
    /\ LET sw == StageWords(response_text)
       IN  /\ Len(sw[1]) \in 1..3
           /\ Yielding(sw) = {3, 4}
           /\ sw[3] # sw[4]
           /\ ret = Returned(Join(sw[3]))


\* the word of a line of the form `integer, then . or ), then whitespace, then
\* a word starting with a letter`, for words of at least n characters; << >>
\* for a line of another form
NumberedWord(line, n) ==
    LET s == Strip(line)
        d == RunEnd(s, 1, Digits)
        w == RunEnd(s, d + 1, Whitespace)
        e == RunEnd(s, w, WordChars)
    IN  IF /\ d > 1 /\ d <= Len(s) /\ s[d] \in {".", ")"}
           /\ w > d + 1 /\ w <= Len(s) /\ s[w] \in Alpha
           /\ e - w >= n
        THEN SubSeq(s, w, e - 1)
        ELSE << >>

\* the words of the lines of that form, in line order
RECURSIVE NumberedWords(_, _)
NumberedWords(lines, n) ==
    IF lines = << >> THEN << >>
    ELSE (IF NumberedWord(Head(lines), n) = << >> THEN << >>
          ELSE <<NumberedWord(Head(lines), n)>>) \o NumberedWords(Tail(lines), n)

\* C12 as stated: for task word_sorting, when at least 4 lines have the form
\* integer, `.` or `)`, whitespace, a word starting with a letter (of any
\* length), the result is those words in line order joined by single spaces.
C12_AnyWordLength ==
    (pc = "done" /\ task_name = "word_sorting" /\ response_text # << >>) =>
        LET ws == NumberedWords(Split(response_text, "\n"), 1)
        IN  Len(ws) >= 4 => ret = Returned(Join(ws))

\* C12: for task word_sorting, when at least 4 lines have the form integer,
\* `.` or `)`, whitespace, a letter followed by at least one more word
\* character, the result is the runs of word characters that start at those
\* letters, one per such line, in line order, joined by single spaces; the
\* other lines are ignored.
C12_NumberedList ==
    (pc = "done" /\ task_name = "word_sorting" /\ response_text # << >>) =>
        LET ws == NumberedWords(Split(response_text, "\n"), 2)
        IN  Len(ws) >= 4 => ret = Returned(Join(ws))

\* a finished call on a text with 4 numbered lines of two or more word
\* characters, one of them with a digit in its word, and a numbered line of a
\* single letter between them, which is left out of the result
C12_Witness ==
    /\ pc = "done"
    /\ task_name = "word_sorting"
    /\ LET lines == Split(response_text, "\n")
           ws == NumberedWords(lines, 2)
       IN  /\ Len(ws) = 4
           /\ \E k \in 1..4 : ~IsAlpha(ws[k])
           /\ \E i \in 2..(Len(lines) - 1) :
                  /\ NumberedWord(lines[i], 2) = << >>
                  /\ NumberedWord(lines[i], 1) # << >>
                  /\ NumberedWord(lines[i - 1], 2) # << >>
                  /\ NumberedWord(lines[i + 1], 2) # << >>
           /\ ret = Returned(Join(ws))


\* the maximal runs of letters of length >= 2 of a line, from position i; with
\* whole, only the runs that have no digit or underscore next to them
RECURSIVE LetterRuns(_, _, _)
LetterRuns(line, i, whole) ==
    IF i > Len(line) THEN << >>
    ELSE IF line[i] \notin Alpha THEN LetterRuns(line, i + 1, whole)
    ELSE LET j == RunEnd(line, i, Alpha)
             alone == /\ (i = 1 \/ line[i - 1] \notin WordChars)
                      /\ (j > Len(line) \/ line[j] \notin WordChars)
         IN  (IF j - i >= 2 /\ (alone \/ ~whole) THEN <<SubSeq(line, i, j - 1)>>
              ELSE << >>) \o LetterRuns(line, j, whole)

\* the words of a line that are left when the stop words are removed
ContentWords(line, whole) ==
    SelectSeq(LetterRuns(line, 1, whole), LAMBDA w : LowerStr(w) \notin stopwords)

\* the line is not skipped by the prose stage and decides its result
Qualifies(line, whole) ==
    /\ Len(Strip(line)) >= 20
    /\ Len(LetterRuns(line, 1, whole)) >= 4
    /\ Len(ContentWords(line, whole)) >= 4

\* the outcome of a word-sorting call whose first two stages failed, when the
\* words of a line are its letter runs as selected by whole
ProseStageOutcome(t, whole) ==
    LET lines == Split(t, "\n")
        n == Len(lines)
        cand == {k \in 1..n : k > n - 15 /\ Qualifies(lines[k], whole)}
        labeled == LabeledWords(t)
    IN  IF cand # {} THEN Returned(Join(ContentWords(lines[Max(cand)], whole)))
        ELSE IF Len(labeled) >= 4 THEN Returned(Join(labeled))
        ELSE GeneralFallback(t)

ProseStageReached ==
    /\ pc = "done"
    /\ task_name = "word_sorting"
    /\ response_text # << >>
    /\ Len(NumberedItems(Split(response_text, "\n"))) < 4
    /\ Len(SingleWordLines(Split(response_text, "\n"))) < 4

\* C13 as stated: at the embedded-prose stage the words of a line are its
\* alphabetic runs of length >= 2; of the last 15 lines, the last one that has
\* a trimmed length of 20 or more, 4 or more such runs and 4 or more of them
\* left without the stop words decides the result.
C13_AlphabeticRuns ==
    ProseStageReached => ret = ProseStageOutcome(response_text, FALSE)

\* C13: at the embedded-prose stage the words of a line are its alphabetic
\* runs of length >= 2 that have no digit or underscore next to them; only
\* the last 15 lines are considered, from the last one backwards; a line is
\* skipped when its trimmed length is under 20 or it has fewer than 4 such
\* words, and the first line that keeps 4 or more words once the stop words
\* are removed, whatever their case, decides the result: those words, in
\* their order on the line.
C13_ProseStage ==
    ProseStageReached => ret = ProseStageOutcome(response_text, TRUE)

\* a finished call on more than 15 lines: a line that qualifies lies before
\* the last 15, the last line is long enough and has 4 words but keeps fewer
\* than 4, and the line before it decides
C13_Witness ==
    /\ ProseStageReached
    /\ LET lines == Split(response_text, "\n")
           n == Len(lines)
       IN  /\ n > 15
           /\ \E k \in 1..(n - 15) : Qualifies(lines[k], TRUE)
           /\ Len(Strip(lines[n])) >= 20
           /\ Len(LetterRuns(lines[n], 1, TRUE)) >= 4
           /\ ~Qualifies(lines[n], TRUE)
           /\ Qualifies(lines[n - 1], TRUE)
           /\ \E k \in 1..(n - 15) : ContentWords(lines[k], TRUE) # ContentWords(lines[n - 1], TRUE)
           /\ ret = Returned(Join(ContentWords(lines[n - 1], TRUE)))


\* the position after the label `answer`, `list` or `result` (in any case)
\* that starts at i and after its colon; 0 when no label starts at i or, with
\* colon, when the label has no colon
AfterLabel(t, i, colon) ==
    LET ends == {i + Len(c) : c \in {c \in LabelCues :
                     i + Len(c) - 1 <= Len(t) /\ LowerStr(SubSeq(t, i, i + Len(c) - 1)) = c}}
    IN  IF ends = {} THEN 0
        ELSE LET p == Min(ends)
             IN  IF p <= Len(t) /\ t[p] = ":" THEN p + 1
                 ELSE IF colon THEN 0
                 ELSE p

\* the content after the first label that is followed by a word character,
\* a whitespace character or a comma: the run of such characters
LabeledContent(t, colon) ==
    LET starts == {AfterLabel(t, i, colon) : i \in 1..Len(t)}
        ok == {p \in starts : p # 0 /\ p <= Len(t) /\ t[p] \in WordChars \cup Whitespace \cup {","}}
    IN  IF ok = {} THEN << >>
        ELSE SubSeq(t, Min(ok), RunEnd(t, Min(ok), WordChars \cup Whitespace \cup {","}) - 1)

\* the pieces of s between commas and whitespace that are letters only and
\* longer than one character
RECURSIVE KeptTokens(_, _)
KeptTokens(s, i) ==
    IF i > Len(s) THEN << >>
    ELSE IF s[i] \in Whitespace \cup {","} THEN KeptTokens(s, i + 1)
    ELSE LET j == RunEnd(s, i, WordChars)
             tok == SubSeq(s, i, j - 1)
         IN  (IF Len(tok) > 1 /\ \A k \in DOMAIN tok : tok[k] \in Alpha THEN <<tok>>
              ELSE << >>) \o KeptTokens(s, j)

LabeledStageReached ==
    /\ pc = "done"
    /\ task_name = "word_sorting"
    /\ response_text # << >>
    /\ LET lines == Split(response_text, "\n")
       IN  /\ Len(NumberedItems(lines)) < 4
           /\ Len(SingleWordLines(lines)) < 4
           /\ ProseScan(LastLines(lines), Len(LastLines(lines))) = << >>

LabeledStageOutcome(t, colon) ==
    LET kept == KeptTokens(LabeledContent(t, colon), 1)
    IN  IF Len(kept) >= 4 THEN Returned(Join(kept)) ELSE GeneralFallback(t)

\* C14 as stated: at the labeled-list stage the content is taken only after
\* `answer:`, `list:` or `result:`, with the colon; its purely alphabetic
\* tokens longer than one character are returned, joined by single spaces,
\* only if at least 4 remain.
C14_ColonRequired ==
    LabeledStageReached => ret = LabeledStageOutcome(response_text, TRUE)

\* C14: at the labeled-list stage the content is taken after the first
\* `answer`, `list` or `result`, in any case and with or without a colon,
\* that is followed by a word character, whitespace or a comma; the content,
\* the run of such characters, is split on commas and whitespace, the purely
\* alphabetic tokens longer than one character are kept, and they are
\* returned joined by single spaces only if at least 4 remain.
C14_LabeledList ==
    LabeledStageReached => ret = LabeledStageOutcome(response_text, FALSE)

\* a finished call at the labeled stage: the first label is followed by a
\* bracket and is passed over, the content after the next label holds a token
\* of one letter and a token with a digit, and the 4 or more tokens that are
\* kept are the result
C14_Witness ==
    /\ LabeledStageReached
    /\ LET t == response_text
           content == LabeledContent(t, FALSE)
           first == Min({i \in 1..Len(t) : AfterLabel(t, i, FALSE) # 0})
       IN  /\ content # << >>
           /\ t[AfterLabel(t, first, FALSE)] = "("
           /\ Len(KeptTokens(content, 1)) >= 4
           /\ \E i \in 2..(Len(content) - 1) :
                  /\ content[i] \in Alpha
                  /\ content[i - 1] \in Whitespace
                  /\ content[i + 1] \in Whitespace
           /\ \E i \in DOMAIN content : content[i] \in Digits
           /\ ret = Returned(Join(KeptTokens(content, 1)))


\* the family block of the task returned nothing for the text
FamilyMissed(task, t) ==
    IF task = "boolean_expressions" THEN ~BooleanRulesResult(t).hit
    ELSE IF task = "word_sorting" THEN ~WordSortingRulesResult(t).hit
    ELSE IF InNoFamily(task) THEN TRUE
    ELSE ~MultipleChoiceRulesResult(t).hit

FallbackReached ==
    pc = "done" /\ response_text # << >> /\ FamilyMissed(task_name, response_text)

\* the text after the first `answer:`, << >> when there is none
AfterAnswerLabel(t) ==
    LET at == {i \in 1..Len(t) :
                  i + 6 <= Len(t) /\ LowerStr(SubSeq(t, i, i + 6)) = <<"a","n","s","w","e","r",":">>}
    IN  IF at = {} THEN << >> ELSE SubSeq(t, Min(at) + 7, Len(t))

\* the first line of s that is not blank, trimmed; << >> when there is none
FirstNonBlankLine(s) ==
    LET lines == Split(s, "\n")
        nonblank == {k \in DOMAIN lines : \E i \in DOMAIN lines[k] : lines[k][i] \notin Whitespace}
    IN  IF nonblank = {} THEN << >> ELSE Strip(lines[Min(nonblank)])

\* s without the commas at its end
WithoutTrailingCommas(s) ==
    LET keep == {k \in DOMAIN s : s[k] # ","}
    IN  IF keep = {} THEN << >> ELSE SubSeq(s, 1, Max(keep))

\* C15: when the general fallback is reached, the result is the first
\* non-blank line of what follows the first `answer:` (in any case), trimmed
\* of surrounding whitespace and of any trailing comma and of nothing else;
\* it is "" when the text has no `answer:` or nothing non-blank follows it.
C15_FallbackLine ==
    FallbackReached =>
        ret = Returned(WithoutTrailingCommas(FirstNonBlankLine(AfterAnswerLabel(response_text))))


\* what the family block of the task returns for the text
FamilyResult(task, t) ==
    IF task = "boolean_expressions" THEN BooleanRulesResult(t)
    ELSE IF task = "word_sorting" THEN WordSortingRulesResult(t)
    ELSE MultipleChoiceRulesResult(t)

\* C16: for a task of a recognized family the general fallback is consulted
\* exactly when every rule of the family produced nothing: when a rule
\* matches, its result is returned whether or not the text holds `answer:`,
\* and when all rules miss, the result is that of the general fallback.
C16_FallbackAfterMiss ==
    /\ (pc = "fallback" /\ ~InNoFamily(task_name)) =>
           ~FamilyResult(task_name, response_text).hit
    /\ (pc = "done" /\ response_text # << >> /\ ~InNoFamily(task_name)) =>
           LET r == FamilyResult(task_name, response_text)
           IN  IF r.hit THEN ret = Returned(r.s)
               ELSE ret = GeneralFallback(response_text)

\* a finished call for a family task on a text that holds `answer:`: a family
\* rule matched and its result, not the line after the label, is returned
C16_Witness ==
    /\ pc = "done"
    /\ ~InNoFamily(task_name)
    /\ ContainsAnswerLabel(response_text)
    /\ FamilyResult(task_name, response_text).hit
    /\ GeneralFallback(response_text) # Returned(FamilyResult(task_name, response_text).s)
    /\ GeneralFallback(response_text) # Returned(<< >>)
    /\ ret = Returned(FamilyResult(task_name, response_text).s)


----------------------------------------------------------------------------
(* Properties of the experiment loop.                                      *)

\* the step appends a row for the job the loops are at
Appends == lpc = "record" /\ lpc' = "loop"
NewRow == results'[Len(results')]

\* C17: in every row the experiment loop appends, correct is true exactly
\* when the stored prediction equals the stored target as a string; a row
\* with prediction "" and a non-empty target has correct = false.
C17_CorrectFlag ==
    [][Appends =>
          /\ Len(results') = Len(results) + 1
          /\ NewRow.correct <=> (NewRow.prediction.kind = "str"
                                   /\ NewRow.target.kind = "str"
                                   /\ NewRow.prediction.s = NewRow.target.s)
          /\ (NewRow.prediction.s = << >> /\ NewRow.target.s # << >>) => ~NewRow.correct]_vars

\* the first run has appended three rows: a correct one whose raw response is
\* not the target, a wrong one with a prediction, a wrong one with none
C17_Witness ==
    /\ runs = 1
    /\ Len(results) = 3
    /\ \E i, j, k \in 1..3 :
          /\ results[i].correct
          /\ results[i].prediction = results[i].target
          /\ results[i].raw_response # results[i].target
          /\ ~results[j].correct
          /\ results[j].prediction.s # << >>
          /\ results[j].prediction # results[j].target
          /\ ~results[k].correct
          /\ results[k].prediction.s = << >>

\* the rows of results are left as they are by a step inside a run
RowsKept ==
    (lpc \notin {"start", "ended"}) =>
        /\ Len(results') >= Len(results)
        /\ \A i \in 1..Len(results) : results'[i] = results[i]

\* the step appends the row of the job with n calls of extract_answer on
\* (raw_response, task), whose value is the prediction of the row
StoresVerbatim(n) ==
    Appends =>
        /\ calls'[cursor] = calls[cursor] + n
        /\ \A k \in DOMAIN calls : k # cursor => calls'[k] = calls[k]
        /\ Len(results') = Len(results) + 1
        /\ NewRow.prediction = StrValue(extract_answer(job_response, JobAt(cursor).task))
        /\ NewRow.raw_response = job_response

\* C18 as stated: for each job the loop runs, extract_answer is called once
\* with (raw_response, task), its value is stored as the prediction of the
\* row, and no later step of the run changes a row that is in results.
C18_CalledOnce == [][StoresVerbatim(1) /\ RowsKept]_vars

\* C18: for each job the loop runs, extract_answer is called twice with the
\* same (raw_response, task), for the prediction and for the correct flag;
\* the value it returns is stored as the prediction of the row, and no later
\* step of the run changes a row that is in results.
C18_StoredVerbatim == [][StoresVerbatim(2) /\ RowsKept]_vars

\* the first run has appended two rows, the first with a prediction that is
\* not its raw response, after two calls of extract_answer for each job
C18_Witness ==
    /\ runs = 1
    /\ Len(results) = 2
    /\ calls[1] = 2 /\ calls[2] = 2
    /\ results[1].prediction.s # << >>
    /\ results[1].prediction # results[1].raw_response
    /\ results[1].prediction # StrValue(LowerStr(results[1].prediction.s))

\* C19: when the API call of a job fails after its retries, the batch is not
\* aborted: the job gets a row with raw_response "" and prediction "", it
\* is not added to completed_jobs, and the loop goes on to the next job.
C19_ApiFailure ==
    [][/\ (lpc = "call" /\ api_error') =>
              /\ attempts' = 3
              /\ lpc' = "record"
              /\ ran' = ran
              /\ JobKey(JobAt(cursor)) \notin completed_jobs'
       /\ (Appends /\ api_error) =>
              /\ Len(results') = Len(results) + 1
              /\ JobKey(NewRow) = JobKey(JobAt(cursor))
              /\ NewRow.raw_response = StrValue(<< >>)
              /\ NewRow.prediction = StrValue(<< >>)
              /\ JobKey(JobAt(cursor)) \notin completed_jobs'
              /\ cursor' = cursor + 1]_vars

\* in the first run the call of the first job failed, its row has no
\* response and no prediction, the job is not in completed_jobs, and the
\* second job then got a row with a response
C19_Witness ==
    /\ runs = 1
    /\ Len(results) = 2
    /\ results[1].raw_response = StrValue(<< >>)
    /\ results[1].prediction = StrValue(<< >>)
    /\ JobKey(results[1]) \notin completed_jobs
    /\ results[2].raw_response.s # << >>
    /\ JobKey(results[2]) \in completed_jobs

\* C20: after a run whose loop finishes without interrupt or exception, all
\* results are in the processed_output file and the checkpoint file does not
\* exist when the script ends; the checkpoint write of the finally block
\* runs only when the success block did not run.
C20_NoCheckpointAfterSuccess ==
    (lpc = "ended" /\ "else" \in ran) =>
        /\ final = to_csv(results)
        /\ ~checkpoint.exists
        /\ "saving progress" \notin ran

\* the run was stopped by Ctrl-C or by an exception that left the loops
Stopped(names) == names \cap {"KeyboardInterrupt", "Exception"} # {}
\* the success block of the run was entered
SuccessBlock(names) == names \cap {"else", "else raised"} # {}

\* C21: when the loop is stopped by KeyboardInterrupt or by an unexpected
\* exception, the script ends only through the finally block, which writes
\* every row that is in results (loaded or appended) to the checkpoint file;
\* the processed_output file is written only by the success block, which a
\* stopped run never enters.
C21_StoppedRunSaves ==
    [][/\ Stopped(ran') => (lpc' \in {"finally", "ended"} /\ ~SuccessBlock(ran'))
       /\ (Stopped(ran) /\ lpc = "finally") =>
              /\ lpc' = "ended"
              /\ results' = results
              /\ checkpoint'.exists
              /\ Len(checkpoint'.rows) = Len(results)
              /\ checkpoint' = to_csv(results)
       /\ (Stopped(ran') \/ Stopped(ran)) => final' = final
       /\ final' # final => (SuccessBlock(ran') /\ ~SuccessBlock(ran))]_vars

\* the second run loaded the row of a failed call, appended two rows and was
\* then interrupted; the three rows are in the checkpoint and there is no
\* processed_output file
C21_Witness ==
    /\ runs = 2
    /\ lpc = "ended"
    /\ "KeyboardInterrupt" \in ran
    /\ Len(results) = 3
    /\ checkpoint = to_csv(results)
    /\ ~final.exists

\* the row has a raw_response that is neither null nor the empty string
HasResponse(row) ==
    /\ row.raw_response # NoneValue
    /\ row.raw_response # NaNValue
    /\ row.raw_response # StrValue(<< >>)

\* the jobs of the configuration that have a loaded row with a response
CompletedOnStart(rows) ==
    {JobKey(JobAt(k)) : k \in {n \in 1..total_jobs :
        \E i \in DOMAIN rows : JobKey(rows[i]) = JobKey(JobAt(n)) /\ HasResponse(rows[i])}}

\* the step at the start of a run: the rows come from the checkpoint when it
\* exists, else from the final results, and the completed jobs are those
\* with a loaded row that has a response
LoadsAndCounts ==
    lpc = "start" =>
        /\ results' = IF checkpoint.exists THEN read_csv(checkpoint)
                       ELSE IF final.exists THEN read_csv(final)
                       ELSE << >>
        /\ completed_jobs' = CompletedOnStart(results')

\* inside a run a job enters completed_jobs only during its own API call
CountedOnStart ==
    (lpc \notin {"start", "ended"}) =>
        \A k \in 1..total_jobs :
            (k # cursor \/ lpc # "call") =>
                (JobKey(JobAt(k)) \in completed_jobs' <=> JobKey(JobAt(k)) \in completed_jobs)

\* the step of the loop at a job: a completed job gets no call and no row,
\* any other job gets a call unless the run is stopped there
SkipsOrAttempts ==
    (lpc = "loop" /\ cursor <= total_jobs) =>
        IF JobKey(JobAt(cursor)) \in completed_jobs
        THEN /\ lpc' \in {"loop", "finally"}
             /\ lpc' = "loop" => cursor' = cursor + 1
             /\ results' = results
             /\ attempts' = attempts
        ELSE /\ lpc' \in {"call", "finally"}
             /\ cursor' = cursor

\* calls and rows come from nowhere else than the loop step at a job
OnlyFromLoop ==
    /\ (lpc' = "call" /\ lpc # "call") => lpc = "loop"
    /\ (lpc' = "record") => lpc = "call"
    /\ (lpc # "start" /\ results' # results /\ lpc' # "start") => lpc = "record"

\* C22: on start a job counts as completed exactly when a loaded row with its
\* key has a non-null, non-empty raw_response; the loop issues no API call
\* and appends no row for such a job, and it attempts every other job it
\* reaches, also one whose loaded rows all have an empty or missing
\* raw_response; the rows are loaded from the checkpoint file when it exists
\* and from the final results file otherwise.
C22_CompletedJobs ==
    [][LoadsAndCounts /\ CountedOnStart /\ SkipsOrAttempts /\ OnlyFromLoop]_vars

\* both files exist and differ; the rows are those of the checkpoint; job 1,
\* whose loaded row has a missing response, got a new row, job 2, loaded with
\* a response, got none, and the call of job 3 is under way
C22_Witness ==
    /\ checkpoint.exists /\ final.exists
    /\ Len(final.rows) = 4
    /\ Len(checkpoint.rows) = 2
    /\ lpc = "call" /\ cursor = 3
    /\ Len(results) = 3
    /\ results[1] = read_csv(checkpoint)[1] /\ results[2] = read_csv(checkpoint)[2]
    /\ JobKey(results[1]) = JobKey(JobAt(1)) /\ ~HasResponse(results[1])
    /\ JobKey(results[2]) = JobKey(JobAt(2)) /\ HasResponse(results[2])
    /\ JobKey(results[3]) = JobKey(JobAt(1))
    /\ calls = <<2, 0, 0>>

\* a step of api_call_with_retry that is not cut short by Ctrl-C
AttemptStep == lpc = "call" /\ lpc' # "finally"

\* C23: api_call_with_retry invokes the API function at most 3 times for one
\* call; the first attempt that succeeds ends the call with its result and
\* no further attempt; an attempt that raises is followed by another while
\* fewer than 3 were made, and when all 3 raised the call raises to the
\* caller and returns no value.
C23_AtMostThreeAttempts ==
    [][/\ attempts' <= 3
       /\ AttemptStep => attempts' = attempts + 1
       /\ (attempts' # attempts /\ attempts' # 0) => lpc = "call"
       /\ (AttemptStep /\ lpc' = "record" /\ ~api_error') =>
              /\ job_response' \in {StrValue(r) : r \in Responses}
              /\ JobKey(JobAt(cursor)) \in completed_jobs'
       /\ (AttemptStep /\ lpc' = "call") => (attempts' < 3 /\ ~api_error')
       /\ (AttemptStep /\ api_error') =>
              /\ attempts' = 3
              /\ lpc' = "record"
              /\ job_response' = StrValue(<< >>)
              /\ completed_jobs' = completed_jobs
       /\ lpc = "record" => attempts' \in {attempts, 0}]_vars

\* all three attempts of the call of job 1 raised; in the call of job 2 the
\* first attempt raised and the second returned a text
C23_Witness ==
    /\ runs = 1
    /\ Len(results) = 1
    /\ results[1].raw_response = StrValue(<< >>)
    /\ lpc = "record" /\ cursor = 2
    /\ attempts = 2
    /\ ~api_error
    /\ job_response.s # << >>

\* none of the six multiple-choice patterns matches the text
NoChoicePattern(t) == \A k \in 1..6 : ChoiceSearch(t, k) = 0

\* the text without the stars, parentheses and whitespace around it
Unwrapped(t) == StripChars(t, {"*", "(", ")"} \cup Whitespace)

\* C24: for the multiple-choice tasks, when none of the six patterns matches
\* and the text is a single letter of A..K (either case) wrapped in any mix
\* of `*`, `(`, `)` and whitespace, that letter is returned uppercased.
C24_BareLetter ==
    (pc = "done" /\ task_name \in {"date_understanding",
                                   "tracking_shuffled_objects_five_objects",
                                   "geometric_shapes"}
                /\ NoChoicePattern(response_text)) =>
        \A u \in {Unwrapped(response_text)} :
            (Len(u) = 1 /\ Upper(u[1]) \in {"A","B","C","D","E","F","G","H","I","J","K"}) =>
                ret = Returned(<<Upper(u[1])>>)

\* the row has a raw_response that is a non-empty text
HasText(row) == row.raw_response.kind = "str" /\ row.raw_response.s # << >>

\* no two of the rows have the same key and both a non-empty raw_response
NoDuplicateIn(rows) ==
    \A i, j \in DOMAIN rows :
        (i < j /\ JobKey(rows[i]) = JobKey(rows[j])) =>
            ~(HasText(rows[i]) /\ HasText(rows[j]))

\* inside a run the loops go forward over the jobs, one call and one row at
\* most for the job they are at
OnePass ==
    (lpc \notin {"start", "ended"}) =>
        /\ cursor' >= cursor
        /\ (lpc' = "call" /\ lpc # "call") => (lpc = "loop" /\ calls[cursor] = 0)
        /\ lpc = "call" => (cursor' = cursor /\ results' = results)
        /\ (lpc = "record" /\ lpc' # "finally") =>
              /\ lpc' = "loop"
              /\ cursor' = cursor + 1
              /\ Len(results') = Len(results) + 1
              /\ JobKey(results'[Len(results')]) = JobKey(JobAt(cursor))
        /\ lpc # "record" => results' = results
        /\ \A k \in 1..total_jobs : calls'[k] <= 2

\* the jobs of the configuration have distinct keys
DistinctJobs ==
    \A j, k \in 1..total_jobs : JobKey(JobAt(j)) = JobKey(JobAt(k)) => j = k

\* C25: over any sequence of runs (fresh, interrupted, resumed), with
\* distinct example inputs and no duplicate in a loaded file, results never
\* hold two rows with the same (model_key, technique, task, input) that both
\* have a non-empty raw_response; within one run each job gets at most one
\* API call (with its retries) and at most one appended row.
C25_NoDuplicateRows ==
    [][DistinctJobs /\ NoDuplicateIn(results) /\ NoDuplicateIn(results') /\ OnePass]_vars

\* the second run loaded the row of the failed call of job 1 and the row of
\* job 2, and appended a row with a response for job 1 only
C25_Witness ==
    /\ runs = 2
    /\ lpc = "loop" /\ cursor = 3
    /\ Len(results) = 3
    /\ JobKey(results[1]) = JobKey(results[3])
    /\ ~HasText(results[1]) /\ HasText(results[2]) /\ HasText(results[3])
    /\ calls = <<2, 0, 0>>


====
